---- MODULE Spec2Model ----
(***************************************************************************)
(* Model of Code/WRO_2025_Future_Engineers_Code.py: the race controller of *)
(* main(), the decision policy (handle_cornering / handle_wall_nudge /     *)
(* handle_pillar), do_parking() and the color classifier (get_rgb,         *)
(* hue_from_rgb, in_window, classify_once, vote_color, see_white_marker).  *)
(*                                                                         *)
(* Time: ms() is read at one place only (line 286).  The clock is the      *)
(* value of the latest ms() reading; every new reading lies a positive     *)
(* number of milliseconds (drawn from Deltas) after the previous one.      *)
(* The sleeps of the program are what makes that time pass; they change    *)
(* no other state.  ticks_ms() is taken to be monotone during a run.       *)
(*                                                                         *)
(* Hue: hue_from_rgb returns a float; the model keeps the hue as the exact *)
(* fraction num/den (den = 0 stands for None).                             *)
(***************************************************************************)
EXTENDS Integers, Sequences, FiniteSets, TLC

(***************************************************************************)
(* Tunables of the program                                                 *)
(***************************************************************************)
PROBE_DOWN_DEG == 215
PROBE_UP_DEG == 301
STEER_RIGHT_TURN == -45
STEER_LEFT_TURN == 45
STEER_RIGHT_SIGN == -30
STEER_LEFT_SIGN == 30
STEER_WALL_NUDGE == 15
PARK_STEER_DEG == 30
CRUISE_SPEED_DPS == 400
PARK_SPEED_DPS == 300
CORNER_FRONT_MM == 200
CORNER_RIGHT_OPEN == 600
CORNER_RIGHT_TIGHT == 200
PILLAR_FRONT_MM == 250
PILLAR_SIDE_CLEAR == 350
WALL_TOO_NEAR_MM == 130
COLOR_SAMPLES == 8
MIN_VALUE_SUM == 40
WHITE_COOLDOWN == 2000
TARGET_LAPS == 3
FAR_MM == 99999
INITIAL_LAST_WHITE_MS == -99999

(***************************************************************************)
(* Bounds of the model and the inputs the environment is drawn from        *)
(***************************************************************************)
\* no ms() reading beyond this value is explored
MaxClock == 7000

\* milliseconds between two consecutive ms() readings
Deltas == {500, 2000, 2001}

\* a distance sensor that delivers no value (None, or get() raises)
NoReading == -1

\* raw values of the front distance sensor (mm)
FrontRaw == {150, 199, 200, 249, 250, 1200}

\* raw values of the side distance sensor (mm)
SideRaw == {100, 129, 130, 199, 200, 350, 351, 600, 601, 800}

\* a raw color read: the list returned by dev_color.get(), or a failure
ColorFail == [fail |-> TRUE, vals |-> <<0, 0, 0>>]

ColorOk(r, g, b) == [fail |-> FALSE, vals |-> <<r, g, b>>]

RawRed == ColorOk(80, 10, 10)

RawRedWrap == ColorOk(80, 10, 30)

RawGreen == ColorOk(10, 80, 10)

RawMagenta == ColorOk(80, 10, 80)

RawWhite == ColorOk(90, 85, 80)

RawGrey == ColorOk(50, 50, 50)

RawDark == ColorOk(5, 5, 5)

RawDarkRed == ColorOk(35, 2, 2)

RawDarkGreen == ColorOk(3, 33, 3)

RawNegative == ColorOk(-4, 70, 12)

RawPinkWhite == ColorOk(90, 80, 80)

RawColors == {ColorFail, RawRed, RawRedWrap, RawGreen, RawMagenta, RawWhite,
              RawGrey, RawDark, RawDarkRed, RawDarkGreen, RawNegative,
              RawPinkWhite}

(***************************************************************************)
(* Hardware access wrappers                                                *)
(***************************************************************************)
\* variant: a failed front read reported as 0 mm
get_front_mm_Zero(v) == IF v = NoReading THEN 0 ELSE v

get_front_mm(v) == IF v = NoReading THEN FAR_MM ELSE v

get_side_mm(v) == IF v = NoReading THEN FAR_MM ELSE v

Max2(a, b) == IF a >= b THEN a ELSE b

Min2(a, b) == IF a <= b THEN a ELSE b

Abs(a) == IF a < 0 THEN -a ELSE a

get_rgb(raw) ==
    IF raw.fail THEN <<0, 0, 0>>
    ELSE <<Max2(0, raw.vals[1]), Max2(0, raw.vals[2]), Max2(0, raw.vals[3])>>

(***************************************************************************)
(* Color classification                                                    *)
(***************************************************************************)
\* the hue as the fraction num/den degrees; den = 0 is None
hue_from_rgb(r, g, b) ==
    LET mx == Max2(r, Max2(g, b))
        mn == Min2(r, Min2(g, b))
        d  == mx - mn
    IN  IF d = 0 THEN [num |-> 0, den |-> 0]
        ELSE IF mx = r THEN [num |-> 60 * ((g - b) % (6 * d)), den |-> d]
        ELSE IF mx = g THEN [num |-> 60 * ((b - r) + 2 * d), den |-> d]
        ELSE [num |-> 60 * ((r - g) + 4 * d), den |-> d]

\* variant: no case for a window that spans the 0/360 seam
in_window_NoWrap(h, center, win) ==
    IF h.den = 0 THEN FALSE
    ELSE LET lo == (center - win) % 360
             hi == (center + win) % 360
         IN  lo * h.den <= h.num /\ h.num <= hi * h.den

in_window(h, center, win) ==
    IF h.den = 0 THEN FALSE
    ELSE LET lo == (center - win) % 360
             hi == (center + win) % 360
         IN  IF lo <= hi
             THEN lo * h.den <= h.num /\ h.num <= hi * h.den
             ELSE h.num >= lo * h.den \/ h.num <= hi * h.den

IsWhite(rgb) ==
    LET r == rgb[1]
        g == rgb[2]
        b == rgb[3]
    IN  /\ r > 60 /\ g > 60 /\ b > 60
        /\ Max2(Abs(r - g), Max2(Abs(g - b), Abs(r - b))) < 15

\* variant: no minimum-brightness test
classify_once_NoFloor(rgb) ==
    LET r == rgb[1]
        g == rgb[2]
        b == rgb[3]
        h == hue_from_rgb(r, g, b)
    IN  IF in_window(h, 0, 20) \/ in_window(h, 360, 20) THEN "red"
        ELSE IF in_window(h, 120, 25) THEN "green"
        ELSE IF in_window(h, 300, 25) THEN "magenta"
        ELSE IF IsWhite(rgb) THEN "white"
        ELSE "none"

classify_once(rgb) ==
    LET r == rgb[1]
        g == rgb[2]
        b == rgb[3]
        h == hue_from_rgb(r, g, b)
    IN  IF (r + g + b) < MIN_VALUE_SUM THEN "none"
        ELSE IF in_window(h, 0, 20) \/ in_window(h, 360, 20) THEN "red"
        ELSE IF in_window(h, 120, 25) THEN "green"
        ELSE IF in_window(h, 300, 25) THEN "magenta"
        ELSE IF IsWhite(rgb) THEN "white"
        ELSE "none"

see_white_marker(rgb) == IsWhite(rgb)

\* the keys of counts, in the order the dict literal inserts them: the
\* order in which a Python dict is iterated (line 179)
LabelOrder == <<"red", "green", "magenta", "white">>

\* counts after the sampling loop: one classify_once per read
Tally(samples) ==
    [lab \in {"red", "green", "magenta", "white"} |->
        Cardinality({k \in DOMAIN samples :
                        classify_once(get_rgb(samples[k])) = lab})]

\* variant: among equal counts the last key wins
RECURSIVE MaxKey_Last(_, _, _)
MaxKey_Last(counts, i, best) ==
    IF i > Len(LabelOrder) THEN best
    ELSE IF counts[LabelOrder[i]] >= counts[best]
         THEN MaxKey_Last(counts, i + 1, LabelOrder[i])
         ELSE MaxKey_Last(counts, i + 1, best)

\* max(counts, key=...): the first key, in iteration order, no later key beats
RECURSIVE MaxKey(_, _, _)
MaxKey(counts, i, best) ==
    IF i > Len(LabelOrder) THEN best
    ELSE IF counts[LabelOrder[i]] > counts[best]
         THEN MaxKey(counts, i + 1, LabelOrder[i])
         ELSE MaxKey(counts, i + 1, best)

Quorum(n) == n >= 2

vote_color(samples) ==
    LET counts == Tally(samples)
        winner == MaxKey(counts, 2, LabelOrder[1])
    IN  IF Quorum(counts[winner]) THEN winner ELSE "none"


(***************************************************************************)
(* Motion helpers: the commanded state of the three motors                 *)
(***************************************************************************)
VARIABLES
    pc,             \* the statement main() executes next
    ret,            \* where steer_arc returns to
    angle_deg,      \* steer_arc's argument
    m_drive,        \* speed the drive motor runs at; 0 after brake()
    m_steer,        \* position the steering motor was sent to
    m_probe,        \* position the probe arm was sent to
    laps_done,
    last_white_ms,
    clock,          \* the latest value ms() returned
    ud,
    sd,
    sig,            \* handle_pillar's vote
    c,              \* do_parking's vote
    situation,      \* history: the detector that matched in this iteration
    frontFailed,    \* history: the front read of this iteration failed
    sideFailed,     \* history: the side read of this iteration failed
    pressSeen,      \* history: is_pressed() has returned True
    releaseSeen,    \* history: is_pressed() has returned False after a True
    detections,     \* history: number of see_white_marker() = True in Racing
    allSpaced,      \* history: every detection came more than the cooldown
                    \* after the detection before it
    triggered,      \* history: a detector 1-4 has matched since Racing began
    calls,          \* history: motor calls of this iteration (or of
                    \* startup, or of do_parking)
    reads,          \* color classifier on its own: the raw reads given to it
    labels,         \* color classifier on its own: classify_once per read
    markers,        \* color classifier on its own: see_white_marker per read
    window          \* hue windows on their own: a hue, a window, the answers

motorVars == <<m_drive, m_steer, m_probe>>

lapVars == <<laps_done, last_white_ms, clock, detections, allSpaced>>

readVars == <<ud, sd, frontFailed, sideFailed>>

buttonVars == <<pressSeen, releaseSeen>>

colorVars == <<reads, labels, markers, window>>

vars == <<pc, ret, angle_deg, m_drive, m_steer, m_probe, laps_done,
          last_white_ms, clock, ud, sd, sig, c, situation, frontFailed,
          sideFailed, pressSeen, releaseSeen, detections, allSpaced,
          triggered, calls, reads, labels, markers, window>>

\* no hue window under test
NoWindow == [h |-> [num |-> 0, den |-> 0], center |-> 0, win |-> 0,
             asked |-> FALSE, member |-> FALSE,
             red |-> FALSE, green |-> FALSE, magenta |-> FALSE]

\* a local variable that is not bound yet
Unbound == -2

Call(name, arg) == <<name, arg>>

\* m_drive.run_at_speed(speed)
RunAtSpeed(speed) ==
    /\ m_drive' = speed
    /\ calls' = Append(calls, Call("run_at_speed", speed))
    /\ UNCHANGED <<m_steer, m_probe>>

\* drive_stop(): m_drive.brake()
DriveStop ==
    /\ m_drive' = 0
    /\ calls' = Append(calls, Call("brake", 0))
    /\ UNCHANGED <<m_steer, m_probe>>

\* steer_to(angle): m_steer.run_to_position(angle, STEER_SPEED_DPS)
SteerTo(angle) ==
    /\ m_steer' = angle
    /\ calls' = Append(calls, Call("steer_to", angle))
    /\ UNCHANGED <<m_drive, m_probe>>

\* probe_to(angle): m_probe.run_to_position(angle, PROBE_SPEED)
ProbeTo(angle) ==
    /\ m_probe' = angle
    /\ calls' = Append(calls, Call("probe_to", angle))
    /\ UNCHANGED <<m_drive, m_steer>>

(***************************************************************************)
(* The state main() starts in.  The motors stand where the last run left   *)
(* them.  laps_done and last_white_ms carry the values lines 265-267 give  *)
(* them; nothing reads them earlier.                                       *)
(***************************************************************************)
Init ==
    /\ pc = "probe_up"
    /\ ret = "none"
    /\ angle_deg = Unbound
    /\ m_drive = 0
    /\ m_steer \in {0, STEER_LEFT_SIGN}
    /\ m_probe \in {PROBE_UP_DEG, PROBE_DOWN_DEG}
    /\ laps_done = 0
    /\ last_white_ms = INITIAL_LAST_WHITE_MS
    /\ clock = 0
    /\ ud = Unbound
    /\ sd = Unbound
    /\ sig = "unbound"
    /\ c = "unbound"
    /\ situation = "pending"
    /\ frontFailed = FALSE
    /\ sideFailed = FALSE
    /\ pressSeen = FALSE
    /\ releaseSeen = FALSE
    /\ detections = 0
    /\ allSpaced = TRUE
    /\ triggered = FALSE
    /\ calls = <<>>
    /\ reads = <<>>
    /\ labels = <<>>
    /\ markers = <<>>
    /\ window = NoWindow

(***************************************************************************)
(* main(): startup posture and the wait for the start button               *)
(***************************************************************************)
StartupProbeUp ==
    /\ pc = "probe_up"
    /\ ProbeTo(PROBE_UP_DEG)
    /\ pc' = "straighten"
    /\ UNCHANGED <<ret, angle_deg, lapVars, readVars, sig, c, situation,
                   buttonVars, triggered, colorVars>>

StartupStraighten ==
    /\ pc = "straighten"
    /\ SteerTo(0)
    /\ pc' = "drive_stop"
    /\ UNCHANGED <<ret, angle_deg, lapVars, readVars, sig, c, situation,
                   buttonVars, triggered, colorVars>>

StartupStop ==
    /\ pc = "drive_stop"
    /\ DriveStop
    /\ pc' = "wait_press"
    /\ UNCHANGED <<ret, angle_deg, lapVars, readVars, sig, c, situation,
                   buttonVars, triggered, colorVars>>

\* what one is_pressed() poll adds to the history of the button
Observe(pressed) ==
    /\ pressSeen' = (pressSeen \/ pressed)
    /\ releaseSeen' = (releaseSeen \/ (pressSeen /\ ~pressed))

\* while not hub.button.right.is_pressed(): wait_ms(30)
WaitPressNext(pressed) == IF pressed THEN "wait_release" ELSE "wait_press"

WaitPress ==
    /\ pc = "wait_press"
    /\ \E pressed \in BOOLEAN :
          /\ Observe(pressed)
          /\ pc' = WaitPressNext(pressed)
    /\ UNCHANGED <<ret, angle_deg, motorVars, lapVars, readVars, sig, c,
                   situation, triggered, calls, colorVars>>

\* variant: no wait for the release
WaitReleaseNext_NoWait(pressed) == "drive_forward"

\* while hub.button.right.is_pressed(): wait_ms(30)
WaitReleaseNext(pressed) == IF pressed THEN "wait_release" ELSE "drive_forward"

WaitRelease ==
    /\ pc = "wait_release"
    /\ \E pressed \in BOOLEAN :
          /\ Observe(pressed)
          /\ pc' = WaitReleaseNext(pressed)
    /\ UNCHANGED <<ret, angle_deg, motorVars, lapVars, readVars, sig, c,
                   situation, triggered, calls, colorVars>>

\* variant: the loop test admits one lap more
LoopContinues_OneMore(laps) == laps <= TARGET_LAPS

\* while laps_done < 3
LoopContinues(laps) == laps < TARGET_LAPS

LoopNext(laps) == IF LoopContinues(laps) THEN "read" ELSE "park_stop"

\* drive_forward(); laps_done = 0; last_white_ms = -99999; first loop test
DriveStart ==
    /\ pc = "drive_forward"
    /\ RunAtSpeed(CRUISE_SPEED_DPS)
    /\ laps_done' = 0
    /\ last_white_ms' = INITIAL_LAST_WHITE_MS
    /\ pc' = LoopNext(laps_done')
    /\ UNCHANGED <<ret, angle_deg, clock, detections, allSpaced, readVars,
                   sig, c, situation, buttonVars, triggered, colorVars>>

(***************************************************************************)
(* Racing: one iteration of the loop of main()                             *)
(***************************************************************************)
\* ud = get_front_mm(); sd = get_side_mm()
ReadDistances ==
    /\ pc = "read"
    /\ \E vf \in FrontRaw \cup {NoReading}, vs \in SideRaw \cup {NoReading} :
          /\ ud' = get_front_mm(vf)
          /\ sd' = get_side_mm(vs)
          /\ frontFailed' = (vf = NoReading)
          /\ sideFailed' = (vs = NoReading)
    /\ situation' = "pending"
    /\ calls' = <<>>
    /\ pc' = "policy"
    /\ UNCHANGED <<ret, angle_deg, motorVars, lapVars, sig, c, buttonVars,
                   triggered, colorVars>>

\* the guards of handle_cornering, handle_wall_nudge and handle_pillar
CornerRightOpen(front, side) ==
    (front < CORNER_FRONT_MM) /\ (side > CORNER_RIGHT_OPEN)

CornerLeftFailsafe(front, side) ==
    (front < CORNER_FRONT_MM) /\ (side < CORNER_RIGHT_TIGHT)

WallTooNear(side) == side < WALL_TOO_NEAR_MM

\* variant: the pillar guard with "or" for "and"
PillarCandidate_Or(front, side) ==
    (front < PILLAR_FRONT_MM) \/ (side > PILLAR_SIDE_CLEAR)

\* variant: the pillar guard without the side-clearance test
PillarCandidate_NoClear(front, side) == front < PILLAR_FRONT_MM

PillarCandidate(front, side) ==
    (front < PILLAR_FRONT_MM) /\ (side > PILLAR_SIDE_CLEAR)

\* variant: the wall nudge is tried before the corners
Decide_WallFirst(front, side) ==
    IF WallTooNear(side) THEN "WallTooNear"
    ELSE IF CornerRightOpen(front, side) THEN "CornerRightOpen"
    ELSE IF CornerLeftFailsafe(front, side) THEN "CornerLeftFailsafe"
    ELSE IF PillarCandidate(front, side) THEN "PillarCandidate"
    ELSE "NoAction"

\* if handle_cornering(): pass / elif handle_wall_nudge(): pass /
\* else: handle_pillar() -- the handler whose guard is met first
Decide(front, side) ==
    IF CornerRightOpen(front, side) THEN "CornerRightOpen"
    ELSE IF CornerLeftFailsafe(front, side) THEN "CornerLeftFailsafe"
    ELSE IF WallTooNear(side) THEN "WallTooNear"
    ELSE IF PillarCandidate(front, side) THEN "PillarCandidate"
    ELSE "NoAction"

\* the angle the matched handler passes to steer_arc
ArcAngle(s) ==
    IF s = "CornerRightOpen" THEN STEER_RIGHT_TURN
    ELSE IF s = "CornerLeftFailsafe" THEN STEER_LEFT_TURN
    ELSE STEER_WALL_NUDGE

\* the policy branches: into steer_arc, into handle_pillar's body, or on
Policy ==
    /\ pc = "policy"
    /\ situation' = Decide(ud, sd)
    /\ triggered' = (triggered \/ situation' # "NoAction")
    /\ IF situation' \in {"CornerRightOpen", "CornerLeftFailsafe", "WallTooNear"}
       THEN /\ angle_deg' = ArcAngle(situation')
            /\ ret' = "marker"
            /\ pc' = "steer_arc"
       ELSE /\ UNCHANGED <<angle_deg, ret>>
            /\ pc' = IF situation' = "PillarCandidate"
                     THEN "pillar_stop" ELSE "marker"
    /\ UNCHANGED <<motorVars, lapVars, readVars, sig, c, buttonVars, calls,
                   colorVars>>

\* steer_arc: steer_to(angle_deg), then time.sleep(hold_s)
SteerArcTurn ==
    /\ pc = "steer_arc"
    /\ SteerTo(angle_deg)
    /\ pc' = "arc_straighten"
    /\ UNCHANGED <<ret, angle_deg, lapVars, readVars, sig, c, situation,
                   buttonVars, triggered, colorVars>>

\* variant: steer_arc returns without straightening
SteerArcStraighten_Held ==
    /\ pc = "arc_straighten"
    /\ pc' = ret
    /\ ret' = "none"
    /\ angle_deg' = Unbound
    /\ UNCHANGED <<motorVars, lapVars, readVars, sig, c, situation,
                   buttonVars, triggered, calls, colorVars>>

\* steer_arc: straighten(), return
SteerArcStraighten ==
    /\ pc = "arc_straighten"
    /\ SteerTo(0)
    /\ pc' = ret
    /\ ret' = "none"
    /\ angle_deg' = Unbound
    /\ UNCHANGED <<lapVars, readVars, sig, c, situation, buttonVars,
                   triggered, colorVars>>

\* handle_pillar: drive_stop()
PillarStop ==
    /\ pc = "pillar_stop"
    /\ DriveStop
    /\ pc' = "pillar_probe_down"
    /\ UNCHANGED <<ret, angle_deg, lapVars, readVars, sig, c, situation,
                   buttonVars, triggered, colorVars>>

\* variant: the probe is not lowered before the vote
PillarProbeDown_Skipped ==
    /\ pc = "pillar_probe_down"
    /\ pc' = "pillar_vote"
    /\ UNCHANGED <<ret, angle_deg, motorVars, lapVars, readVars, sig, c,
                   situation, buttonVars, triggered, calls, colorVars>>

\* handle_pillar: probe_down(); wait_ms(120)
PillarProbeDown ==
    /\ pc = "pillar_probe_down"
    /\ ProbeTo(PROBE_DOWN_DEG)
    /\ pc' = "pillar_vote"
    /\ UNCHANGED <<ret, angle_deg, lapVars, readVars, sig, c, situation,
                   buttonVars, triggered, colorVars>>

\* the 8-read sequences a vote of the race is drawn from
Block(a, n, b) == [k \in 1..COLOR_SAMPLES |-> IF k <= n THEN a ELSE b]

RaceSamples == {ColorFail, RawRed, RawGreen, RawMagenta, RawWhite}

RaceVotes == {Block(a, n, b) : a \in RaceSamples, b \in RaceSamples, n \in {1, 4}}

\* what vote_color() can return on them
RaceVoteResults == {vote_color(samples) : samples \in RaceVotes}

\* handle_pillar: sig = vote_color()
PillarVote ==
    /\ pc = "pillar_vote"
    /\ sig' \in RaceVoteResults
    /\ pc' = "pillar_probe_up"
    /\ UNCHANGED <<ret, angle_deg, motorVars, lapVars, readVars, c,
                   situation, buttonVars, triggered, calls, colorVars>>

\* variant: the probe is left down after the vote
PillarProbeUp_Skipped ==
    /\ pc = "pillar_probe_up"
    /\ pc' = "pillar_react"
    /\ UNCHANGED <<ret, angle_deg, motorVars, lapVars, readVars, sig, c,
                   situation, buttonVars, triggered, calls, colorVars>>

\* handle_pillar: probe_up()
PillarProbeUp ==
    /\ pc = "pillar_probe_up"
    /\ ProbeTo(PROBE_UP_DEG)
    /\ pc' = "pillar_react"
    /\ UNCHANGED <<ret, angle_deg, lapVars, readVars, sig, c, situation,
                   buttonVars, triggered, colorVars>>

\* handle_pillar: if sig == 'green' ... elif sig == 'red' ...
Steers(vote) == vote \in {"green", "red"}

\* variant: the two sign angles swapped
SignAngle_Swapped(vote) ==
    IF vote = "green" THEN STEER_RIGHT_SIGN ELSE STEER_LEFT_SIGN

SignAngle(vote) == IF vote = "green" THEN STEER_LEFT_SIGN ELSE STEER_RIGHT_SIGN

PillarReact ==
    /\ pc = "pillar_react"
    /\ IF Steers(sig)
       THEN /\ angle_deg' = SignAngle(sig)
            /\ ret' = "pillar_resume"
            /\ pc' = "steer_arc"
       ELSE /\ UNCHANGED <<angle_deg, ret>>
            /\ pc' = "pillar_resume"
    /\ UNCHANGED <<motorVars, lapVars, readVars, sig, c, situation,
                   buttonVars, triggered, calls, colorVars>>

\* handle_pillar: drive_forward(); return True
PillarResume ==
    /\ pc = "pillar_resume"
    /\ RunAtSpeed(CRUISE_SPEED_DPS)
    /\ sig' = "unbound"
    /\ pc' = "marker"
    /\ UNCHANGED <<ret, angle_deg, lapVars, readVars, c, situation,
                   buttonVars, triggered, colorVars>>

\* variant: no cooldown between accepted detections
LapAccepted_NoCooldown(now, last) == now - last > 0

\* variant: the cooldown counted from time 0 before the first detection
LapAccepted_FromZero(now, last) == now - Max2(last, 0) > WHITE_COOLDOWN

\* variant: no detection is accepted during the first cooldown of the clock
LapAccepted_AfterWarmup(now, last) ==
    now - last > WHITE_COOLDOWN /\ now > WHITE_COOLDOWN

\* if now - last_white_ms > WHITE_COOLDOWN
LapAccepted(now, last) == now - last > WHITE_COOLDOWN

\* lines 285-293 and the loop test that follows: see_white_marker(), the
\* cooldown test, the lap count, the settle sleep, wait_ms(10).  The
\* iteration ends here: nothing reads ud and sd again before line 271
\* overwrites them, and the model drops their values.
MarkerCheck ==
    /\ pc = "marker"
    /\ \E raw \in RawColors :
          IF see_white_marker(get_rgb(raw))
          THEN \E d \in Deltas :
                  LET now == clock + d
                  IN  /\ now <= MaxClock
                      /\ clock' = now
                      /\ detections' = detections + 1
                      /\ allSpaced' = (allSpaced /\
                                        (detections = 0 \/ d > WHITE_COOLDOWN))
                      /\ IF LapAccepted(now, last_white_ms)
                         THEN /\ laps_done' = laps_done + 1
                              /\ last_white_ms' = now
                         ELSE UNCHANGED <<laps_done, last_white_ms>>
          ELSE UNCHANGED lapVars
    /\ pc' = LoopNext(laps_done')
    /\ ud' = Unbound
    /\ sd' = Unbound
    /\ frontFailed' = FALSE
    /\ sideFailed' = FALSE
    /\ UNCHANGED <<ret, angle_deg, motorVars, sig, c, situation, buttonVars,
                   triggered, calls, colorVars>>

(***************************************************************************)
(* do_parking()                                                            *)
(***************************************************************************)
\* drive_stop()
ParkStop ==
    /\ pc = "park_stop"
    /\ calls' = <<Call("brake", 0)>>
    /\ m_drive' = 0
    /\ pc' = "park_vote"
    /\ UNCHANGED <<ret, angle_deg, m_steer, m_probe, lapVars, readVars, sig,
                   c, situation, buttonVars, triggered, colorVars>>

\* variant: any recognised color ends the wait
ParkingFound_AnyColor(vote) == vote # "none"

\* if c == 'magenta': break
ParkingFound(vote) == vote = "magenta"

\* variant: the wait for magenta never ends
ParkVoteNext_Never(vote) == "park_vote"

ParkVoteNext(vote) == IF ParkingFound(vote) THEN "park_steer" ELSE "park_vote"

\* c = vote_color(); leave the loop on magenta, else wait_ms(30) and repeat
ParkVote ==
    /\ pc = "park_vote"
    /\ c' \in RaceVoteResults
    /\ pc' = ParkVoteNext(c')
    /\ UNCHANGED <<ret, angle_deg, motorVars, lapVars, readVars, sig,
                   situation, buttonVars, triggered, calls, colorVars>>

\* steer_to(+30)
ParkSteer ==
    /\ pc = "park_steer"
    /\ SteerTo(PARK_STEER_DEG)
    /\ pc' = "park_drive"
    /\ UNCHANGED <<ret, angle_deg, lapVars, readVars, sig, c, situation,
                   buttonVars, triggered, colorVars>>

\* m_drive.run_at_speed(PARK_SPEED_DPS); time.sleep(1.5)
ParkDrive ==
    /\ pc = "park_drive"
    /\ RunAtSpeed(PARK_SPEED_DPS)
    /\ pc' = "park_brake"
    /\ UNCHANGED <<ret, angle_deg, lapVars, readVars, sig, c, situation,
                   buttonVars, triggered, colorVars>>

\* variant: the drive is left running after the parking move
ParkBrake_NoStop ==
    /\ pc = "park_brake"
    /\ pc' = "park_straighten"
    /\ UNCHANGED <<ret, angle_deg, motorVars, lapVars, readVars, sig, c,
                   situation, buttonVars, triggered, calls, colorVars>>

\* drive_stop()
ParkBrake ==
    /\ pc = "park_brake"
    /\ DriveStop
    /\ pc' = "park_straighten"
    /\ UNCHANGED <<ret, angle_deg, lapVars, readVars, sig, c, situation,
                   buttonVars, triggered, colorVars>>

\* variant: the program starts over after parking
AfterParking_Restart == "wait_press"

\* where main() is after do_parking() has returned
AfterParking == "done"

\* straighten(); do_parking returns; print; main() returns
ParkStraighten ==
    /\ pc = "park_straighten"
    /\ SteerTo(0)
    /\ pc' = AfterParking
    /\ UNCHANGED <<ret, angle_deg, lapVars, readVars, sig, c, situation,
                   buttonVars, triggered, colorVars>>

Next ==
    \/ StartupProbeUp
    \/ StartupStraighten
    \/ StartupStop
    \/ WaitPress
    \/ WaitRelease
    \/ DriveStart
    \/ ReadDistances
    \/ Policy
    \/ SteerArcTurn
    \/ SteerArcStraighten
    \/ PillarStop
    \/ PillarProbeDown
    \/ PillarVote
    \/ PillarProbeUp
    \/ PillarReact
    \/ PillarResume
    \/ MarkerCheck
    \/ ParkStop
    \/ ParkVote
    \/ ParkSteer
    \/ ParkDrive
    \/ ParkBrake
    \/ ParkStraighten

Spec == Init /\ [][Next]_vars

\* the statements that return by themselves: every step of main() but the
\* polls whose outcome is the environment's (the two button loops and the
\* parking vote)
Progress ==
    \/ StartupProbeUp
    \/ StartupStraighten
    \/ StartupStop
    \/ DriveStart
    \/ ReadDistances
    \/ Policy
    \/ SteerArcTurn
    \/ SteerArcStraighten
    \/ PillarStop
    \/ PillarProbeDown
    \/ PillarVote
    \/ PillarProbeUp
    \/ PillarReact
    \/ PillarResume
    \/ MarkerCheck
    \/ ParkStop
    \/ ParkSteer
    \/ ParkDrive
    \/ ParkBrake
    \/ ParkStraighten

\* the single thread of main() keeps executing: a statement that can return
\* does return
SpecLive == Init /\ [][Next]_vars /\ WF_vars(Progress)

\* the phase of the race controller, read off the program counter
RacePhase ==
    IF pc \in {"probe_up", "straighten", "drive_stop", "wait_press",
               "wait_release", "drive_forward"} THEN "WaitForStart"
    ELSE IF pc \in {"park_stop", "park_vote", "park_steer", "park_drive",
                    "park_brake", "park_straighten"} THEN "Parking"
    ELSE IF pc = "done" THEN "Finished"
    ELSE "Racing"

(***************************************************************************)
(* The color classifier on its own: classify_once, see_white_marker and    *)
(* vote_color applied to every sequence of ColorInputs                     *)
(***************************************************************************)
\* one sample per label, a failed read and a read that is too dark
LabelSamples == {ColorFail, RawRed, RawGreen, RawMagenta, RawWhite, RawDark}

\* two runs of any two reads, and four pairs in any order of labels
ColorInputs ==
    {Block(a, n, b) : a \in RawColors, b \in RawColors, n \in 0..COLOR_SAMPLES}
    \cup {<<a, a, b, b, x, x, y, y>> : a \in LabelSamples, b \in LabelSamples,
                                        x \in LabelSamples, y \in LabelSamples}

InitColor ==
    /\ pc = "color_in"
    /\ reads \in ColorInputs
    /\ labels = <<>>
    /\ markers = <<>>
    /\ window = NoWindow
    /\ ret = "none"
    /\ angle_deg = Unbound
    /\ m_drive = 0
    /\ m_steer = 0
    /\ m_probe = PROBE_UP_DEG
    /\ laps_done = 0
    /\ last_white_ms = INITIAL_LAST_WHITE_MS
    /\ clock = 0
    /\ ud = Unbound
    /\ sd = Unbound
    /\ sig = "unbound"
    /\ c = "unbound"
    /\ situation = "pending"
    /\ frontFailed = FALSE
    /\ sideFailed = FALSE
    /\ pressSeen = FALSE
    /\ releaseSeen = FALSE
    /\ detections = 0
    /\ allSpaced = TRUE
    /\ triggered = FALSE
    /\ calls = <<>>

\* classify_once() and see_white_marker() on each read
ApplyClassify ==
    /\ pc = "color_in"
    /\ labels' = [k \in DOMAIN reads |-> classify_once(get_rgb(reads[k]))]
    /\ markers' = [k \in DOMAIN reads |-> see_white_marker(get_rgb(reads[k]))]
    /\ pc' = "color_classified"
    /\ UNCHANGED <<ret, angle_deg, motorVars, lapVars, readVars, sig, c,
                   situation, buttonVars, triggered, calls, reads, window>>

\* vote_color() on the reads
ApplyVote ==
    /\ pc = "color_classified"
    /\ c' = vote_color(reads)
    /\ pc' = "color_voted"
    /\ UNCHANGED <<ret, angle_deg, motorVars, lapVars, readVars, sig,
                   situation, buttonVars, triggered, calls, colorVars>>

NextColor ==
    \/ ApplyClassify
    \/ ApplyVote

SpecColor == InitColor /\ [][NextColor]_vars

(***************************************************************************)
(* The hue windows on their own: in_window applied to every hue of         *)
(* HueInputs, for the windows of HueWindows and for those of classify_once *)
(***************************************************************************)
\* the hues 0, 0.5, 1, ... 359.5 degrees
HueInputs == {[num |-> n, den |-> 2] : n \in 0..719}

\* windows asked for: those of classify_once and others across the seam
HueWindows == {<<0, 20>>, <<360, 20>>, <<120, 25>>, <<300, 25>>,
               <<350, 25>>, <<10, 25>>, <<180, 179>>}

InitHue ==
    /\ pc = "hue_in"
    /\ \E h \in HueInputs, w \in HueWindows :
          window = [NoWindow EXCEPT !.h = h, !.center = w[1], !.win = w[2]]
    /\ reads = <<>>
    /\ labels = <<>>
    /\ markers = <<>>
    /\ ret = "none"
    /\ angle_deg = Unbound
    /\ m_drive = 0
    /\ m_steer = 0
    /\ m_probe = PROBE_UP_DEG
    /\ laps_done = 0
    /\ last_white_ms = INITIAL_LAST_WHITE_MS
    /\ clock = 0
    /\ ud = Unbound
    /\ sd = Unbound
    /\ sig = "unbound"
    /\ c = "unbound"
    /\ situation = "pending"
    /\ frontFailed = FALSE
    /\ sideFailed = FALSE
    /\ pressSeen = FALSE
    /\ releaseSeen = FALSE
    /\ detections = 0
    /\ allSpaced = TRUE
    /\ triggered = FALSE
    /\ calls = <<>>

\* in_window(h, center, win), and the three window tests of classify_once
ApplyWindow ==
    /\ pc = "hue_in"
    /\ window' = [window EXCEPT
          !.asked = TRUE,
          !.member = in_window(window.h, window.center, window.win),
          !.red = in_window(window.h, 0, 20) \/ in_window(window.h, 360, 20),
          !.green = in_window(window.h, 120, 25),
          !.magenta = in_window(window.h, 300, 25)]
    /\ pc' = "hue_out"
    /\ UNCHANGED <<ret, angle_deg, motorVars, lapVars, readVars, sig, c,
                   situation, buttonVars, triggered, calls, reads, labels,
                   markers>>

NextHue == ApplyWindow

SpecHue == InitHue /\ [][NextHue]_vars

(***************************************************************************)
(* Properties                                                              *)
(***************************************************************************)
\* The situation the decision policy is to select for a reading, in the
\* priority order and with the thresholds the specification lists.
ClaimSituation(frontMm, sideMm) ==
    IF frontMm < 200 /\ sideMm > 600 THEN "CornerRightOpen"
    ELSE IF frontMm < 200 /\ sideMm < 200 THEN "CornerLeftFailsafe"
    ELSE IF sideMm < 130 THEN "WallTooNear"
    ELSE IF frontMm < 250 /\ sideMm > 350 THEN "PillarCandidate"
    ELSE "NoAction"

\* The motor calls of the one maneuver that belongs to a situation.
ClaimManeuvers(s) ==
    IF s = "CornerRightOpen"
    THEN {<<Call("steer_to", -45), Call("steer_to", 0)>>}
    ELSE IF s = "CornerLeftFailsafe"
    THEN {<<Call("steer_to", 45), Call("steer_to", 0)>>}
    ELSE IF s = "WallTooNear"
    THEN {<<Call("steer_to", 15), Call("steer_to", 0)>>}
    ELSE IF s = "PillarCandidate"
    THEN {<<Call("brake", 0), Call("probe_to", 215), Call("probe_to", 301)>>
            \o arc \o <<Call("run_at_speed", 400)>> :
          arc \in {<<>>, <<Call("steer_to", 30), Call("steer_to", 0)>>,
                   <<Call("steer_to", -30), Call("steer_to", 0)>>}}
    ELSE {<<>>}

\* C1: in every Racing iteration the situation selected for the reading
\* (ud, sd) is the first match in the order CornerRightOpen,
\* CornerLeftFailsafe, WallTooNear, PillarCandidate, else NoAction, and by
\* the time the iteration reaches the marker check the motor calls issued are
\* those of that situation's single maneuver and of no other.
C1_FirstMatchWins ==
    (RacePhase = "Racing" /\ ud # Unbound /\ situation # "pending") =>
        /\ situation = ClaimSituation(ud, sd)
        /\ pc = "marker" => calls \in ClaimManeuvers(situation)
        /\ \A k \in DOMAIN calls :
              \E m \in ClaimManeuvers(situation) :
                 k <= Len(m) /\ calls[k] = m[k]

C1_Witness ==
    /\ pc = "marker"
    /\ ud = 150
    /\ sd = 100
    /\ situation = "CornerLeftFailsafe"
    /\ calls = <<Call("steer_to", 45), Call("steer_to", 0)>>

\* C2: a step in which the marker is detected increments laps_done by one
\* and records the time of the reading if that time lies more than 2000 ms
\* after last_white_ms, and leaves both unchanged otherwise; no other step
\* changes either of them.
C2_CooldownDebounce ==
    [][ /\ (detections' # detections) =>
              IF clock' - last_white_ms > 2000
              THEN laps_done' = laps_done + 1 /\ last_white_ms' = clock'
              ELSE laps_done' = laps_done /\ last_white_ms' = last_white_ms
        /\ (laps_done' # laps_done \/ last_white_ms' # last_white_ms) =>
              (detections' = detections + 1 /\ RacePhase = "Racing")
      ]_vars

\* two detections 500 ms apart have counted as one lap
C2_Witness ==
    /\ detections = 2
    /\ laps_done = 1
    /\ clock - last_white_ms = 500

\* C3: parking proceeds past the vote loop only with a Magenta vote; as long
\* as the vote is anything else the phase is Parking, the drive motor is
\* stopped, and the only motor call of do_parking so far is the brake.
C3_ParkingNeedsMagenta ==
    /\ pc \in {"park_steer", "park_drive", "park_brake", "park_straighten",
               "done"} => c = "magenta"
    /\ pc = "park_vote" =>
          /\ c # "magenta"
          /\ m_drive = 0
          /\ calls = <<Call("brake", 0)>>
    /\ (m_drive = 300 \/ RacePhase = "Finished") => c = "magenta"

C3_Witness ==
    /\ pc = "park_vote"
    /\ c \in {"none", "red", "green", "white"}
    /\ m_drive = 0

\* C4: laps_done stays within 0..3 and changes only by +1; the phase is
\* Racing only while laps_done < 3, and Parking or Finished only with
\* laps_done = 3.
C4_LapInvariant ==
    /\ laps_done \in 0..3
    /\ RacePhase = "Racing" => laps_done < 3
    /\ RacePhase \in {"Parking", "Finished"} => laps_done = 3
    /\ RacePhase = "WaitForStart" => laps_done = 0

C4_LapTarget ==
    /\ []C4_LapInvariant
    /\ [][laps_done' \in {laps_done, laps_done + 1}]_vars

C4_Witness ==
    /\ pc = "park_stop"
    /\ laps_done = 3

PhaseRank(phase) ==
    IF phase = "WaitForStart" THEN 1
    ELSE IF phase = "Racing" THEN 2
    ELSE IF phase = "Parking" THEN 3
    ELSE 4

\* C5: every step keeps the phase or moves it to the next one of
\* WaitForStart, Racing, Parking, Finished; Finished is never left.
C5_PhaseForward ==
    [][ /\ PhaseRank(RacePhase') \in
              {PhaseRank(RacePhase), PhaseRank(RacePhase) + 1}
        /\ RacePhase = "Finished" => RacePhase' = "Finished"
      ]_vars

C5_Witness == RacePhase = "Finished"

\* C6: the drive motor runs, and the phase is past WaitForStart, only after
\* the button was seen pressed and then seen released; while it is held
\* (pressed seen, release not yet seen) the phase is WaitForStart and the
\* drive motor is stopped.
C6_StartOnRelease ==
    /\ (m_drive # 0 \/ RacePhase # "WaitForStart") => (pressSeen /\ releaseSeen)
    /\ (pressSeen /\ ~releaseSeen) =>
          (pc = "wait_release" /\ RacePhase = "WaitForStart" /\ m_drive = 0)
    /\ ~pressSeen => ~releaseSeen

C6_Witness ==
    /\ RacePhase = "Racing"
    /\ m_drive = 400
    /\ pressSeen
    /\ releaseSeen

\* C7: a failed read is the far sentinel, beyond every threshold: with a
\* failed front read neither corner detector nor PillarCandidate is selected
\* (and side = 100 selects WallTooNear); with a failed side read neither
\* CornerLeftFailsafe nor WallTooNear is selected.
C7_SentinelIsFar ==
    /\ frontFailed =>
          /\ ud > 250
          /\ situation \in {"pending", "WallTooNear", "NoAction"}
          /\ (situation # "pending" /\ sd = 100) => situation = "WallTooNear"
    /\ sideFailed =>
          /\ sd > 600
          /\ situation \in {"pending", "CornerRightOpen", "PillarCandidate",
                            "NoAction"}

C7_Witness ==
    /\ frontFailed
    /\ sd = 100
    /\ situation = "WallTooNear"
    /\ pc = "steer_arc"

\* the number of samples classified as lab
ClaimCount(classified, lab) ==
    Cardinality({k \in DOMAIN classified : classified[k] = lab})

\* The vote the specification describes: the highest count wins if it is at
\* least 2; among labels sharing it the first of Red, Green, Magenta, White.
ClaimVote(classified) ==
    LET order == <<"red", "green", "magenta", "white">>
        top == CHOOSE m \in 0..8 :
                  /\ \E i \in 1..4 : ClaimCount(classified, order[i]) = m
                  /\ \A i \in 1..4 : ClaimCount(classified, order[i]) <= m
        first == CHOOSE i \in 1..4 :
                    /\ ClaimCount(classified, order[i]) = top
                    /\ \A j \in 1..(i - 1) : ClaimCount(classified, order[j]) < top
    IN  IF top >= 2 THEN order[first] ELSE "none"

\* C8: the vote over 8 classified samples is the label with the highest
\* count if that count is at least 2, the first in the order Red, Green,
\* Magenta, White among equals, and Unknown otherwise.
C8_VoteQuorumAndTieBreak ==
    pc = "color_voted" => (Len(labels) = 8 /\ c = ClaimVote(labels))

\* a tie of Green and White, read White first, goes to Green
C8_Witness ==
    /\ pc = "color_voted"
    /\ ClaimCount(labels, "green") = 4
    /\ ClaimCount(labels, "white") = 4
    /\ labels[1] = "white"
    /\ c = "green"

ClaimSum(rgb) == rgb[1] + rgb[2] + rgb[3]

\* C9: a sample with r+g+b < 40 classifies as Unknown; a failed read is
\* (0,0,0), classifies as Unknown and is no marker; a vote over reads that
\* are all failed (or too dark) returns Unknown.
C9_DarkAndFailedAreUnknown ==
    pc \in {"color_classified", "color_voted"} =>
        /\ \A k \in DOMAIN reads :
              /\ ClaimSum(get_rgb(reads[k])) < 40 => labels[k] = "none"
              /\ reads[k].fail =>
                    /\ get_rgb(reads[k]) = <<0, 0, 0>>
                    /\ labels[k] = "none"
                    /\ ~markers[k]
        /\ (pc = "color_voted" /\
            \A k \in DOMAIN reads :
               reads[k].fail \/ ClaimSum(get_rgb(reads[k])) < 40)
              => c = "none"

C9_Witness ==
    /\ pc = "color_voted"
    /\ \A k \in DOMAIN reads : reads[k].fail
    /\ c = "none"

\* C10: while every detection came more than the cooldown after the one
\* before it, laps_done equals the number of detections, so three such
\* detections, and no fewer, end Racing; while no detector has matched the
\* motors keep their cruise posture and the loop issues no motor call.
C10_ThreeSpacedLaps ==
    /\ allSpaced => laps_done = detections
    /\ (allSpaced /\ detections = 3) => RacePhase \in {"Parking", "Finished"}
    /\ (allSpaced /\ RacePhase \in {"Parking", "Finished"}) => detections = 3
    /\ (RacePhase = "Racing" /\ ~triggered) =>
          /\ m_drive = 400
          /\ m_steer = 0
          /\ m_probe = 301
          /\ pc # "read" => calls = <<>>
          /\ situation \in {"pending", "NoAction"}

C10_Witness ==
    /\ pc = "park_stop"
    /\ allSpaced
    /\ detections = 3
    /\ laps_done = 3
    /\ ~triggered
    /\ m_drive = 400

\* the number of the four trigger conditions that hold for a reading
TriggerCount(front, side) ==
    Cardinality({n \in 1..4 :
        \/ n = 1 /\ CornerRightOpen(front, side)
        \/ n = 2 /\ CornerLeftFailsafe(front, side)
        \/ n = 3 /\ WallTooNear(side)
        \/ n = 4 /\ PillarCandidate(front, side)})

\* C11 as stated: at most one of the four trigger conditions holds for the
\* reading (ud, sd) of an iteration.
C11_Original_MutuallyExclusive ==
    (RacePhase = "Racing" /\ ud # Unbound) => TriggerCount(ud, sd) <= 1

\* C11, amended: the trigger conditions are pairwise exclusive except for
\* two pairs: CornerRightOpen implies PillarCandidate, and
\* CornerLeftFailsafe holds together with WallTooNear exactly when
\* side < 130; so at most two conditions hold for a reading, and the priority
\* order picks the corner in both cases.
C11_ExclusiveButTwoPairs ==
    (RacePhase = "Racing" /\ ud # Unbound) =>
        /\ TriggerCount(ud, sd) <= 2
        /\ ~(CornerRightOpen(ud, sd) /\ CornerLeftFailsafe(ud, sd))
        /\ ~(CornerRightOpen(ud, sd) /\ WallTooNear(sd))
        /\ ~(CornerLeftFailsafe(ud, sd) /\ PillarCandidate(ud, sd))
        /\ ~(WallTooNear(sd) /\ PillarCandidate(ud, sd))
        /\ CornerRightOpen(ud, sd) => PillarCandidate(ud, sd)
        /\ (CornerLeftFailsafe(ud, sd) /\ WallTooNear(sd)) <=>
              (ud < 200 /\ sd < 130)
        /\ (TriggerCount(ud, sd) = 2 /\ situation # "pending") =>
              situation \in {"CornerRightOpen", "CornerLeftFailsafe"}

\* front = 150, side = 100 meets CornerLeftFailsafe and WallTooNear
C11_Witness ==
    /\ ud = 150
    /\ sd = 100
    /\ CornerLeftFailsafe(ud, sd)
    /\ WallTooNear(sd)
    /\ situation = "CornerLeftFailsafe"

\* C12: with lo = (center - win) mod 360 and hi = (center + win) mod 360, a
\* window with lo > hi holds h iff h >= lo or h <= hi (and one with
\* lo <= hi iff lo <= h <= hi); a hue is Red iff h >= 340 or h <= 20, Green
\* iff 95 <= h <= 145, Magenta iff 275 <= h <= 325, so no hue lies in two of
\* the three windows.  Hues are num/den degrees.
C12_WindowWraparound ==
    window.asked =>
        LET n  == window.h.num
            d  == window.h.den
            lo == (window.center - window.win) % 360
            hi == (window.center + window.win) % 360
        IN  /\ lo > hi => (window.member <=> (n >= lo * d \/ n <= hi * d))
            /\ lo <= hi => (window.member <=> (n >= lo * d /\ n <= hi * d))
            /\ window.red <=> (n >= 340 * d \/ n <= 20 * d)
            /\ window.green <=> (n >= 95 * d /\ n <= 145 * d)
            /\ window.magenta <=> (n >= 275 * d /\ n <= 325 * d)
            /\ ~(window.red /\ window.green)
            /\ ~(window.red /\ window.magenta)
            /\ ~(window.green /\ window.magenta)

\* hue 355 is in the red window (center 0, +-20)
C12_Witness ==
    /\ window.asked
    /\ window.h = [num |-> 710, den |-> 2]
    /\ window.center = 0
    /\ window.win = 20
    /\ window.member
    /\ window.red

ClaimStop == Call("brake", 0)

ClaimProbeDown == Call("probe_to", 215)

ClaimProbeUp == Call("probe_to", 301)

ClaimCruise == Call("run_at_speed", 400)

\* the steering a vote calls for: left for Green, right for Red, else none
ClaimReaction(vote) ==
    IF vote = "green" THEN <<Call("steer_to", 30), Call("steer_to", 0)>>
    ELSE IF vote = "red" THEN <<Call("steer_to", -30), Call("steer_to", 0)>>
    ELSE <<>>

IsPrefix(p, q) == Len(p) <= Len(q) /\ \A k \in DOMAIN p : p[k] = q[k]

\* handle_pillar is at its optional steer arc
InPillarArc == pc \in {"steer_arc", "arc_straighten"} /\ ret = "pillar_resume"

\* C13: in a PillarCandidate iteration the motor calls come in the order
\* brake, probe down, probe up, (steer arc), run at cruise speed; the vote is
\* taken between probe down and probe up, with the drive stopped and the
\* probe down; the drive runs again only after the probe is up.
C13_PillarOrder ==
    /\ pc = "pillar_stop" => (calls = <<>> /\ sig = "unbound")
    /\ pc = "pillar_probe_down" =>
          (calls = <<ClaimStop>> /\ sig = "unbound" /\ m_drive = 0)
    /\ pc = "pillar_vote" =>
          /\ calls = <<ClaimStop, ClaimProbeDown>>
          /\ sig = "unbound"
          /\ m_drive = 0
          /\ m_probe = 215
    /\ pc = "pillar_probe_up" =>
          /\ calls = <<ClaimStop, ClaimProbeDown>>
          /\ sig # "unbound"
          /\ m_drive = 0
          /\ m_probe = 215
    /\ pc = "pillar_react" =>
          /\ calls = <<ClaimStop, ClaimProbeDown, ClaimProbeUp>>
          /\ m_drive = 0
          /\ m_probe = 301
    /\ (InPillarArc \/ pc = "pillar_resume") =>
          /\ IsPrefix(<<ClaimStop, ClaimProbeDown, ClaimProbeUp>>, calls)
          /\ IsPrefix(calls, <<ClaimStop, ClaimProbeDown, ClaimProbeUp>>
                                \o ClaimReaction(sig))
          /\ m_drive = 0
          /\ m_probe = 301
    /\ (pc = "marker" /\ situation = "PillarCandidate") =>
          /\ \E vote \in {"green", "red", "none"} :
                calls = <<ClaimStop, ClaimProbeDown, ClaimProbeUp>>
                           \o ClaimReaction(vote) \o <<ClaimCruise>>
          /\ m_drive = 400
          /\ m_probe = 301
    /\ sig # "unbound" =>
          (pc \in {"pillar_probe_up", "pillar_react", "pillar_resume"}
           \/ InPillarArc)

C13_Witness ==
    /\ pc = "marker"
    /\ situation = "PillarCandidate"
    /\ calls = <<ClaimStop, ClaimProbeDown, ClaimProbeUp,
                 Call("steer_to", 30), Call("steer_to", 0), ClaimCruise>>

\* what C14 requires of every state
C14_ReactionInvariant ==
    /\ pc = "pillar_resume" =>
          calls = <<ClaimStop, ClaimProbeDown, ClaimProbeUp>>
                     \o ClaimReaction(sig)
    /\ InPillarArc =>
          /\ sig \in {"green", "red"}
          /\ angle_deg = (IF sig = "green" THEN 30 ELSE -30)
    /\ (pc = "marker" /\ situation = "PillarCandidate") =>
          /\ m_drive = 400
          /\ m_steer = 0
          /\ calls[Len(calls)] = ClaimCruise

\* C14: after the probe is up again, a Green vote steers to +30 and back to
\* 0, a Red vote to -30 and back to 0, any other vote (Unknown, Magenta,
\* White) issues no steering call; then, whatever the vote, the drive is run
\* at cruise speed.
C14_ReactionByLabel ==
    /\ []C14_ReactionInvariant
    /\ [][pc = "pillar_resume" =>
             /\ m_drive' = 400
             /\ calls' = Append(calls, ClaimCruise)
             /\ pc' = "marker"]_vars

C14_Witness ==
    /\ pc = "pillar_resume"
    /\ sig = "red"
    /\ calls = <<ClaimStop, ClaimProbeDown, ClaimProbeUp,
                 Call("steer_to", -30), Call("steer_to", 0)>>

\* C15: in a Racing iteration whose reading matches none of detectors 1-4,
\* the policy step goes straight to the marker check with no motor call and
\* no vote, and the marker check issues none either: drive speed, steering
\* angle and probe position stay as they were.
C15_NoActionNoOp ==
    [][ /\ (pc = "policy" /\ ClaimSituation(ud, sd) = "NoAction") =>
              /\ pc' = "marker"
              /\ situation' = "NoAction"
              /\ UNCHANGED <<m_drive, m_steer, m_probe, calls, sig>>
              /\ calls = <<>>
        /\ (pc = "marker" /\ situation = "NoAction") =>
              /\ calls = <<>>
              /\ sig = "unbound"
              /\ UNCHANGED <<m_drive, m_steer, m_probe, calls, sig>>
      ]_vars

C15_Witness ==
    /\ pc = "marker"
    /\ situation = "NoAction"
    /\ ud = 1200
    /\ sd = 800
    /\ calls = <<>>
    /\ m_drive = 400

ClaimParkSteer == Call("steer_to", 30)

ClaimParkDrive == Call("run_at_speed", 300)

ClaimStraighten == Call("steer_to", 0)

\* what C16 requires of every state
C16_ParkingInvariant ==
    /\ pc = "park_steer" => (c = "magenta" /\ calls = <<ClaimStop>>)
    /\ pc = "park_drive" =>
          /\ calls = <<ClaimStop, ClaimParkSteer>>
          /\ m_steer = 30
          /\ m_drive = 0
    /\ pc = "park_brake" =>
          /\ calls = <<ClaimStop, ClaimParkSteer, ClaimParkDrive>>
          /\ m_steer = 30
          /\ m_drive = 300
    /\ pc = "park_straighten" =>
          /\ calls = <<ClaimStop, ClaimParkSteer, ClaimParkDrive, ClaimStop>>
          /\ m_steer = 30
          /\ m_drive = 0
    /\ RacePhase = "Finished" =>
          /\ calls = <<ClaimStop, ClaimParkSteer, ClaimParkDrive, ClaimStop,
                       ClaimStraighten>>
          /\ m_steer = 0
          /\ m_drive = 0
          /\ c = "magenta"

\* C16: after the Magenta vote the motor calls are, in order, steer to +30,
\* run at park speed, brake, steer to 0, and then the program is Finished;
\* in Finished the drive is stopped, the steering is straight and no step
\* issues a motor call.
C16_ParkingSequence ==
    /\ []C16_ParkingInvariant
    /\ [][RacePhase = "Finished" =>
             UNCHANGED <<calls, m_drive, m_steer, m_probe, pc>>]_vars

C16_Witness ==
    /\ RacePhase = "Finished"
    /\ calls = <<ClaimStop, ClaimParkSteer, ClaimParkDrive, ClaimStop,
                 ClaimStraighten>>
    /\ m_drive = 0
    /\ m_steer = 0

\* C18: the probe is at its down position only while the drive is braked;
\* the first motor call of the program raises the probe, and in the calls
\* of an iteration every run_at_speed after a probe-down has a probe-up in
\* between.
C18_ProbeUpWhileDriven ==
    /\ m_probe = 215 => m_drive = 0
    /\ m_drive # 0 => m_probe = 301
    /\ pc \in {"straighten", "drive_stop", "wait_press", "wait_release",
               "drive_forward"} =>
          (calls # <<>> /\ calls[1] = ClaimProbeUp /\ m_probe = 301)
    /\ \A i \in DOMAIN calls : \A j \in DOMAIN calls :
          (i < j /\ calls[i] = ClaimProbeDown /\ calls[j][1] = "run_at_speed")
             => \E k \in DOMAIN calls : i < k /\ k < j /\ calls[k] = ClaimProbeUp

C18_Witness ==
    /\ pc = "marker"
    /\ m_drive = 400
    /\ m_probe = 301
    /\ \E i \in DOMAIN calls : calls[i] = ClaimProbeDown

\* C19: wherever the Racing loop reads the distances, decides, or checks
\* the marker, the steering is commanded straight and the drive is
\* commanded to cruise speed, whatever maneuvers came before.
C19_CruisePostureWhenSensing ==
    pc \in {"read", "policy", "marker"} => (m_steer = 0 /\ m_drive = 400)

C19_Witness ==
    /\ pc = "read"
    /\ situation = "CornerLeftFailsafe"
    /\ calls = <<Call("steer_to", 45), ClaimStraighten>>
    /\ m_steer = 0
    /\ m_drive = 400

\* what C20 requires of every state
C20_StartInvariant ==
    /\ detections = 0 =>
          /\ laps_done = 0
          /\ last_white_ms = -99999
          /\ \A d \in Deltas : (clock + d) - last_white_ms > 2000
    /\ laps_done = 3 =>
          pc \in {"park_stop", "park_vote", "park_steer", "park_drive",
                  "park_brake", "park_straighten", "done"}

\* C20: the first detection of a marker is accepted whatever the clock
\* reads; the step that accepts the third detection leaves the loop, so
\* that no distance is read and no maneuver begun afterwards, and the next
\* motor call is the brake that opens Parking.
C20_FirstAcceptedThenPark ==
    /\ []C20_StartInvariant
    /\ [][ /\ (detections = 0 /\ detections' = 1) =>
                 (laps_done' = 1 /\ last_white_ms' = clock')
           /\ (laps_done = 2 /\ laps_done' = 3) =>
                 (pc' = "park_stop" /\ UNCHANGED <<calls, m_drive>>)
           /\ pc = "park_stop" =>
                 (calls' = <<ClaimStop>> /\ m_drive' = 0 /\ pc' = "park_vote")
         ]_vars

C20_Witness ==
    /\ pc = "park_vote"
    /\ laps_done = 3
    /\ detections = 3
    /\ clock = 4502
    /\ calls = <<ClaimStop>>

\* the start button is eventually seen pressed and then released
ClaimStarted == <>releaseSeen

\* three marker detections are eventually accepted
ClaimThreeAccepted == <>(laps_done = 3)

\* a vote of the parking wait eventually returns magenta
ClaimMagentaSeen == <>(c = "magenta")

InManeuver ==
    pc \in {"steer_arc", "arc_straighten", "pillar_stop", "pillar_probe_down",
            "pillar_vote", "pillar_probe_up", "pillar_react", "pillar_resume"}

\* C17: if the button is pressed and released, three detections are
\* accepted and a parking vote returns magenta, the program reaches
\* Finished; the startup, every maneuver with its vote, and the parking
\* move end by themselves; and in the parking wait a vote can always leave
\* the program in the wait, whose only way out is a magenta vote.
C17_RunsOnceAndTerminates ==
    /\ (ClaimStarted /\ ClaimThreeAccepted /\ ClaimMagentaSeen)
          => <>(RacePhase = "Finished")
    /\ (pc = "probe_up") ~> (pc = "wait_press")
    /\ InManeuver ~> (pc = "marker")
    /\ (pc = "pillar_vote") ~> (sig # "unbound")
    /\ (pc = "park_steer") ~> (RacePhase = "Finished")
    /\ [](pc = "park_vote" => ENABLED (ParkVote /\ pc' = "park_vote"))
    /\ [][pc = "park_vote" =>
             (pc' = "park_vote" \/ (pc' = "park_steer" /\ c' = "magenta"))]_vars

\* Finished reached without the Magenta assumption: does not hold, the
\* parking wait can go on for ever
FinishedWithoutMagenta ==
    (ClaimStarted /\ ClaimThreeAccepted) => <>(RacePhase = "Finished")

C17_Witness ==
    /\ RacePhase = "Finished"
    /\ releaseSeen
    /\ laps_done = 3
    /\ c = "magenta"
    /\ triggered

====
